---- MODULE Spec2Model ----
(***************************************************************************)
(* A model of challenge.py: the process-wide response cache (get_cached),  *)
(* the three analyses q1, q2, q3 that main runs over the transit Data      *)
(* Source, and the breadth-first search bfs over the stop/route adjacency  *)
(* map.                                                                    *)
(***************************************************************************)
EXTENDS Integers, Sequences, FiniteSets, TLC

VARIABLES
    pc,          \* position of the process
    argq,        \* args.q
    argkey,      \* args.apikey
    api_key,     \* the module-level api_key (line 6)
    main_api_key,\* the name api_key assigned inside main (line 180)
    cache,       \* the module-level cache dict (line 155): url -> response
    calls,       \* url -> how many times requests.get was issued for it
    sent,        \* the header dicts of the requests issued so far
    lastcall,    \* what the latest fetch did: url, outcome, contacted
    err,         \* the exception that ended the process, or "none"
    phase,       \* which build is running and for which analysis
    routes,      \* the route records being iterated by the running build
    ri,          \* index of the next route of the running build
    dict,        \* route_to_stops_dict / stop_to_routes_dict of the running build
    out,         \* what the analyses have returned / printed so far
    neighbors,   \* the adjacency defaultdict(set) of compute_route_between
    start,       \* bfs argument
    end,         \* bfs argument
    visited,     \* bfs local (a list)
    queue,       \* bfs local: list of (node, path)
    result,      \* what bfs returned
    enq          \* history: every label put on the queue, in order

vars == << pc, argq, argkey, api_key, main_api_key, cache, calls, sent, lastcall,
           err, phase, routes, ri, dict, out, neighbors, start, end,
           visited, queue, result, enq >>

progVars == << argq, argkey, api_key, main_api_key, cache, calls, sent, lastcall,
               err, phase, routes, ri, dict, out >>

(***************************************************************************)
(* Bounds of the model.                                                    *)
(***************************************************************************)
NumLabels == 4      \* labels of the adjacency maps bfs is run on directly
MaxEdges == 3       \* directed edges of those maps
MaxRoutes == 2      \* route records in one route listing
MaxStops == 2       \* stop records in one stop listing

AllLabels == << "Ashmont", "Red", "Arlington", "Green", "Park", "Blue" >>
Labels == { AllLabels[i] : i \in 1..NumLabels }

(***************************************************************************)
(* Python values.                                                          *)
(***************************************************************************)
None == [some |-> FALSE, val |-> << >>]
Some(v) == [some |-> TRUE, val |-> v]

Range(s) == { s[i] : i \in 1..Len(s) }
NoDup(s) == \A i, j \in 1..Len(s) : s[i] = s[j] => i = j
Last(s) == s[Len(s)]

\* every listing of a finite set, one per iteration order of a Python set
Orders(S) == { s \in [1..Cardinality(S) -> S] : Range(s) = S }

(***************************************************************************)
(* bfs (lines 134-149).  neighbors is a defaultdict(set): reading an       *)
(* absent key yields the empty set and stores it under the key.            *)
(***************************************************************************)
Nbrs(n, x) == IF x \in DOMAIN n THEN n[x] ELSE {}

Touch(n, x) == [k \in DOMAIN n \cup {x} |-> Nbrs(n, k)]

BfsInitUnmarked(s) == [visited |-> << >>, queue |-> << <<s, << >> >> >>]

BfsInit(s) == [visited |-> <<s>>, queue |-> << <<s, << >> >> >>]

Pop(q) == [head |-> q[1], rest |-> Tail(q)]

AtEndAlways(curr_node, e) == TRUE

\* line 141
AtEnd(curr_node, e) == curr_node = e

\* the for loop of lines 144-147 over the neighbours in iteration order ord
RECURSIVE ForNeighborsNoHop(_, _, _, _, _)
ForNeighborsNoHop(ord, vis, q, curr, path) ==
    IF ord = << >> THEN [visited |-> vis, queue |-> q, added |-> << >>]
    ELSE IF Head(ord) \notin Range(vis)
         THEN LET r == ForNeighborsNoHop(Tail(ord), Append(vis, Head(ord)),
                                         Append(q, <<Head(ord), path>>), curr, path)
              IN [r EXCEPT !.added = <<Head(ord)>> \o @]
         ELSE ForNeighborsNoHop(Tail(ord), vis, q, curr, path)

RECURSIVE ForNeighbors(_, _, _, _, _)
ForNeighbors(ord, vis, q, curr, path) ==
    IF ord = << >> THEN [visited |-> vis, queue |-> q, added |-> << >>]
    ELSE IF Head(ord) \notin Range(vis)
         THEN LET r == ForNeighbors(Tail(ord), Append(vis, Head(ord)),
                                    Append(q, <<Head(ord), Append(path, curr)>>),
                                    curr, path)
              IN [r EXCEPT !.added = <<Head(ord)>> \o @]
         ELSE ForNeighbors(Tail(ord), vis, q, curr, path)

BfsReturnNone ==
    /\ pc = "bfs"
    /\ queue = << >>
    /\ result' = None
    /\ pc' = "bfs_ret"
    /\ UNCHANGED << neighbors, start, end, visited, queue, enq >>
    /\ UNCHANGED progVars

BfsReturnPath ==
    /\ pc = "bfs"
    /\ queue # << >>
    /\ LET p == Pop(queue) IN
         /\ AtEnd(p.head[1], end)
         /\ result' = Some(Append(p.head[2], p.head[1]))
         /\ queue' = p.rest
    /\ pc' = "bfs_ret"
    /\ UNCHANGED << neighbors, start, end, visited, enq >>
    /\ UNCHANGED progVars

BfsExpand ==
    /\ pc = "bfs"
    /\ queue # << >>
    /\ LET p == Pop(queue) IN
         /\ ~AtEnd(p.head[1], end)
         /\ \E ord \in Orders(Nbrs(neighbors, p.head[1])) :
              LET r == ForNeighbors(ord, visited, p.rest, p.head[1], p.head[2]) IN
                /\ visited' = r.visited
                /\ queue' = r.queue
                /\ enq' = enq \o r.added
         /\ neighbors' = Touch(neighbors, p.head[1])
    /\ UNCHANGED << pc, start, end, result >>
    /\ UNCHANGED progVars

NextBfs == BfsReturnNone \/ BfsReturnPath \/ BfsExpand

(***************************************************************************)
(* bfs on its own: every adjacency map over Labels with at most MaxEdges   *)
(* edges, every start and end.                                             *)
(***************************************************************************)
RECURSIVE SubsetsUpTo(_, _)
SubsetsUpTo(S, k) ==
    IF k = 0 THEN { {} }
    ELSE LET T == SubsetsUpTo(S, k - 1) IN T \cup { t \cup {e} : t \in T, e \in S }

EdgeSets == SubsetsUpTo(Labels \X Labels, MaxEdges)

MapOf(E) == [k \in { e[1] : e \in E } |-> { e[2] : e \in { f \in E : f[1] = k } }]

IdleProg ==
    /\ argq = "q3" /\ argkey = "" /\ api_key = "" /\ main_api_key = ""
    /\ cache = << >> /\ calls = << >> /\ sent = {} /\ lastcall = None
    /\ err = "none" /\ phase = "none" /\ routes = << >> /\ ri = 1
    /\ dict = << >> /\ out = None

InitBfs ==
    /\ IdleProg
    /\ pc = "bfs"
    /\ \E E \in EdgeSets : neighbors = MapOf(E)
    /\ start \in Labels
    /\ end \in Labels
    /\ visited = BfsInit(start).visited
    /\ queue = BfsInit(start).queue
    /\ enq = <<start>>
    /\ result = None

SpecBfs == InitBfs /\ [][NextBfs]_vars

FairSpecBfs == SpecBfs /\ WF_vars(NextBfs)

(***************************************************************************)
(* The Data Source.  A reply is what one HTTP request comes back with: a   *)
(* transport error, a non-200 status, a 200 whose body does not parse into *)
(* {'data': [...]}, or a 200 with records.  Route ids are distinct within  *)
(* a listing and opaque, so the i-th record is given the id i; display     *)
(* names need not be distinct.                                             *)
(***************************************************************************)
RouteIds == 1..MaxRoutes
RouteNames == { "Red", "Green" }
StopNames == { "Ashmont", "Arlington" }
Inputs == StopNames \cup { "Nowhere" }

RECURSIVE SeqsUpTo(_, _)
SeqsUpTo(S, k) ==
    IF k = 0 THEN { << >> }
    ELSE LET T == SeqsUpTo(S, k - 1) IN T \cup { Append(t, e) : t \in T, e \in S }

RouteListings ==
    { l \in SeqsUpTo([id : RouteIds, long_name : RouteNames], MaxRoutes) :
        \A i \in 1..Len(l) : l[i].id = i }

StopListings == SeqsUpTo(StopNames, MaxStops)

RoutesUrl == [kind |-> "routes", id |-> 0]
StopsUrl(route_id) == [kind |-> "stops", id |-> route_id]

Failures == { "transport_error", "http_error", "malformed" }

Replies(url) ==
    [outcome : Failures, data : { << >> }]
    \cup [outcome : { "ok" },
          data : IF url.kind = "routes" THEN RouteListings ELSE StopListings]

(***************************************************************************)
(* get_cached and headers (lines 155-170).                                 *)
(***************************************************************************)
Headers(key) == IF key # "" THEN { <<"X-API-KEY", key>> } ELSE {}

StoreNothing(c, url, resp) == c

Store(c, url, resp) == [u \in DOMAIN c \cup {url} |-> IF u = url THEN resp ELSE c[u]]

NoResp == [malformed |-> TRUE, data |-> << >>]

\* resp is what is returned, raised the exception leaving get_cached, cache
\* the cache afterwards, contacted whether requests.get was issued
GetCached(c, url, reply) ==
    IF url \in DOMAIN c
    THEN [raised |-> "none", resp |-> c[url], cache |-> c, contacted |-> FALSE]
    ELSE IF reply.outcome = "transport_error"
    THEN [raised |-> "ConnectionError", resp |-> NoResp, cache |-> c, contacted |-> TRUE]
    ELSE IF reply.outcome = "http_error"
    THEN [raised |-> "HTTPError", resp |-> NoResp, cache |-> c, contacted |-> TRUE]
    ELSE LET resp == [malformed |-> reply.outcome = "malformed", data |-> reply.data]
         IN [raised |-> "none", resp |-> resp, cache |-> Store(c, url, resp),
             contacted |-> TRUE]

\* a failed fetch answered with no records instead of an exception
FetchLenient(c, url, reply) ==
    LET g == GetCached(c, url, reply) IN
      IF g.raised # "none" \/ g.resp.malformed
      THEN [raised |-> "none", data |-> << >>, cache |-> c, contacted |-> g.contacted]
      ELSE [raised |-> "none", data |-> g.resp.data, cache |-> g.cache,
            contacted |-> g.contacted]

\* get_cached(url).json()['data'] (lines 23 and 92)
Fetch(c, url, reply) ==
    LET g == GetCached(c, url, reply) IN
      IF g.raised # "none"
      THEN [raised |-> g.raised, data |-> << >>, cache |-> g.cache,
            contacted |-> g.contacted]
      ELSE IF g.resp.malformed
      THEN [raised |-> "JSONDecodeError", data |-> << >>, cache |-> g.cache,
            contacted |-> g.contacted]
      ELSE [raised |-> "none", data |-> g.resp.data, cache |-> g.cache,
            contacted |-> g.contacted]

Count(cl, url) == IF url \in DOMAIN cl THEN cl[url] ELSE 0

\* the bookkeeping of one fetch: the cache, the request counter, the headers
\* sent and the record of the call
Fetched(url, reply, f) ==
    /\ cache' = f.cache
    /\ calls' = IF f.contacted
                THEN [u \in DOMAIN calls \cup {url} |->
                        IF u = url THEN Count(calls, url) + 1 ELSE calls[u]]
                ELSE calls
    /\ sent' = IF f.contacted THEN sent \cup { Headers(api_key) } ELSE sent
    /\ lastcall' = Some([url |-> url, contacted |-> f.contacted, raised |-> f.raised,
                         outcome |-> IF f.contacted THEN reply.outcome ELSE "hit",
                         n |-> IF lastcall.some THEN lastcall.val.n + 1 ELSE 1])

\* the replies worth distinguishing: one when the cache answers
RepliesFor(url) == IF url \in DOMAIN cache THEN { [outcome |-> "ok", data |-> << >>] }
                   ELSE Replies(url)

(***************************************************************************)
(* Python dicts keep insertion order: a dict is a list of (key, value).    *)
(***************************************************************************)
DictHas(d, k) == \E i \in 1..Len(d) : d[i][1] = k
DictGet(d, k) == d[CHOOSE i \in 1..Len(d) : d[i][1] = k][2]
DictSet(d, k, v) ==
    IF DictHas(d, k) THEN [i \in 1..Len(d) |-> IF d[i][1] = k THEN <<k, v>> ELSE d[i]]
    ELSE Append(d, <<k, v>>)

\* min / max with key=len: the first key, in iteration order, of extremal length
MinKey(d) ==
    d[CHOOSE i \in 1..Len(d) :
        /\ \A j \in 1..Len(d) : Len(d[j][2]) >= Len(d[i][2])
        /\ \A j \in 1..(i - 1) : Len(d[j][2]) > Len(d[i][2])][1]

MaxKeyLast(d) ==
    d[CHOOSE i \in 1..Len(d) : \A j \in 1..Len(d) : j <= i][1]

MaxKey(d) ==
    d[CHOOSE i \in 1..Len(d) :
        /\ \A j \in 1..Len(d) : Len(d[j][2]) <= Len(d[i][2])
        /\ \A j \in 1..(i - 1) : Len(d[j][2]) < Len(d[i][2])][1]

\* lines 84-86: stop_to_routes_dict[stop_name].append(route_name), per stop
RECURSIVE AppendRoute(_, _, _)
AppendRoute(d, ss, route_name) ==
    IF ss = << >> THEN d
    ELSE AppendRoute(
           DictSet(d, Head(ss),
                   Append(IF DictHas(d, Head(ss)) THEN DictGet(d, Head(ss)) ELSE << >>,
                          route_name)),
           Tail(ss), route_name)

\* line 42 at two routes or more, counting a stop listed for any route
TransfersAny(d) == SelectSeq(d, LAMBDA e : Len(e[2]) > 0)

\* lines 41-43: the stops printed by q2
Transfers(d) == SelectSeq(d, LAMBDA e : Len(e[2]) > 1)

SetAdd(n, k, v) == [x \in DOMAIN n \cup {k} |-> IF x = k THEN Nbrs(n, k) \cup {v} ELSE n[x]]

AddPairOneWay(n, stop_name, route_name) == SetAdd(n, stop_name, route_name)

\* lines 126-127
AddPair(n, stop_name, route_name) ==
    SetAdd(SetAdd(n, stop_name, route_name), route_name, stop_name)

\* the inner loop of lines 123-127 over the stops of one route
RECURSIVE AddPairs(_, _, _)
AddPairs(n, ss, route_name) ==
    IF ss = << >> THEN n
    ELSE AddPairs(AddPair(n, Head(ss), route_name), Tail(ss), route_name)

(***************************************************************************)
(* main (lines 172-192).                                                   *)
(***************************************************************************)
NoOut == [q1 |-> None, most |-> None, least |-> None, transfer |-> None,
          example |-> None, input |-> None]

\* the analysis that follows stage st, by the ifs of lines 182-192
AfterStage(st) ==
    IF st = "main" /\ argq \in {"all", "q1"} THEN "q1"
    ELSE IF st \in {"main", "q1"} /\ argq \in {"all", "q2"} THEN "q2"
    ELSE IF st \in {"main", "q1", "q2"} /\ argq \in {"all", "q3"} THEN "q3"
    ELSE "done"

bfsVars == << neighbors, start, end, visited, queue, result, enq >>
loopVars == << routes, ri, dict >>
fetchVars == << cache, calls, sent, lastcall >>
argVars == << argq, argkey, api_key, main_api_key >>

ArgKeys == {"", "K"}

\* the process as main is entered, started with --q in qs and --apikey in keys
InitArgs(qs, keys) ==
    /\ pc = "main"
    /\ argq \in qs
    /\ argkey \in keys
    /\ api_key = ""
    /\ main_api_key = ""
    /\ cache = << >> /\ calls = << >> /\ sent = {} /\ lastcall = None
    /\ err = "none" /\ phase = "none" /\ routes = << >> /\ ri = 1
    /\ dict = << >> /\ out = NoOut
    /\ neighbors = << >> /\ start = "" /\ end = ""
    /\ visited = << >> /\ queue = << >> /\ result = None /\ enq = << >>

\* line 180 binds a name local to main; the module-level api_key is not assigned
Main ==
    /\ pc = "main"
    /\ main_api_key' = argkey
    /\ pc' = AfterStage("main")
    /\ UNCHANGED << argq, argkey, api_key, fetchVars, err, phase, loopVars, out, bfsVars >>

Crash(e) ==
    /\ pc' = "crashed"
    /\ err' = e

\* q1 (lines 10-13)
Q1 ==
    /\ pc = "q1"
    /\ \E reply \in RepliesFor(RoutesUrl) :
         LET f == Fetch(cache, RoutesUrl, reply) IN
           /\ Fetched(RoutesUrl, reply, f)
           /\ IF f.raised # "none"
              THEN Crash(f.raised) /\ out' = out
              ELSE /\ out' = [out EXCEPT !.q1 =
                                Some([i \in 1..Len(f.data) |-> f.data[i].long_name])]
                   /\ pc' = AfterStage("q1")
                   /\ err' = err
    /\ UNCHANGED << argVars, phase, loopVars, bfsVars >>

\* q2 enters compute_route_with_most_stops (line 32)
Q2 ==
    /\ pc = "q2"
    /\ phase' = "most"
    /\ pc' = "routes"
    /\ UNCHANGED << argVars, fetchVars, err, loopVars, out, bfsVars >>

\* q3 enters compute_route_between('Ashmont', 'Arlington') (lines 102-104)
Q3 ==
    /\ pc = "q3"
    /\ phase' = "example"
    /\ start' = "Ashmont"
    /\ end' = "Arlington"
    /\ pc' = "routes"
    /\ UNCHANGED << argVars, fetchVars, err, loopVars, out,
                    neighbors, visited, queue, result, enq >>

\* the call of get_all_subway_routes that opens a build (lines 69, 80, 122)
BuildRoutes ==
    /\ pc = "routes"
    /\ \E reply \in RepliesFor(RoutesUrl) :
         LET f == Fetch(cache, RoutesUrl, reply) IN
           /\ Fetched(RoutesUrl, reply, f)
           /\ IF f.raised # "none"
              THEN Crash(f.raised) /\ UNCHANGED << loopVars, neighbors >>
              ELSE /\ routes' = f.data
                   /\ ri' = 1
                   /\ dict' = << >>
                   /\ neighbors' = IF phase \in {"example", "input"} THEN << >>
                                   ELSE neighbors
                   /\ pc' = "stops"
                   /\ err' = err
    /\ UNCHANGED << argVars, phase, out, start, end, visited, queue, result, enq >>

\* one round of the loop of get_route_to_stops (lines 69-73)
RouteToStopsStep ==
    /\ pc = "stops"
    /\ phase \in {"most", "least"}
    /\ ri <= Len(routes)
    /\ \E reply \in RepliesFor(StopsUrl(routes[ri].id)) :
         LET f == Fetch(cache, StopsUrl(routes[ri].id), reply) IN
           /\ Fetched(StopsUrl(routes[ri].id), reply, f)
           /\ IF f.raised # "none"
              THEN Crash(f.raised) /\ UNCHANGED << ri, dict >>
              ELSE /\ dict' = DictSet(dict, routes[ri].long_name, f.data)
                   /\ ri' = ri + 1
                   /\ UNCHANGED << pc, err >>
    /\ UNCHANGED << argVars, phase, routes, out, bfsVars >>

\* one round of the outer loop of get_stop_to_routes (lines 80-86)
StopToRoutesStep ==
    /\ pc = "stops"
    /\ phase = "transfer"
    /\ ri <= Len(routes)
    /\ \E reply \in RepliesFor(StopsUrl(routes[ri].id)) :
         LET f == Fetch(cache, StopsUrl(routes[ri].id), reply) IN
           /\ Fetched(StopsUrl(routes[ri].id), reply, f)
           /\ IF f.raised # "none"
              THEN Crash(f.raised) /\ UNCHANGED << ri, dict >>
              ELSE /\ dict' = AppendRoute(dict, f.data, routes[ri].long_name)
                   /\ ri' = ri + 1
                   /\ UNCHANGED << pc, err >>
    /\ UNCHANGED << argVars, phase, routes, out, bfsVars >>

\* one round of the outer loop of compute_route_between (lines 122-127)
AdjacencyStep ==
    /\ pc = "stops"
    /\ phase \in {"example", "input"}
    /\ ri <= Len(routes)
    /\ \E reply \in RepliesFor(StopsUrl(routes[ri].id)) :
         LET f == Fetch(cache, StopsUrl(routes[ri].id), reply) IN
           /\ Fetched(StopsUrl(routes[ri].id), reply, f)
           /\ IF f.raised # "none"
              THEN Crash(f.raised) /\ UNCHANGED << ri, neighbors >>
              ELSE /\ neighbors' = AddPairs(neighbors, f.data, routes[ri].long_name)
                   /\ ri' = ri + 1
                   /\ UNCHANGED << pc, err >>
    /\ UNCHANGED << argVars, phase, routes, dict, out,
                    start, end, visited, queue, result, enq >>

\* compute_route_with_most_stops returns and q2 calls
\* compute_route_with_least_stops (lines 32-36, 61-63)
MostStops ==
    /\ pc = "stops"
    /\ phase = "most"
    /\ ri > Len(routes)
    /\ IF dict = << >>
       THEN Crash("ValueError") /\ UNCHANGED << out, phase >>
       ELSE /\ out' = [out EXCEPT !.most =
                         Some(<<MaxKey(dict), Len(DictGet(dict, MaxKey(dict)))>>)]
            /\ phase' = "least"
            /\ pc' = "routes"
            /\ err' = err
    /\ UNCHANGED << argVars, fetchVars, loopVars, bfsVars >>

\* compute_route_with_least_stops returns and q2 calls get_stop_to_routes
\* (lines 36-41, 52-54)
LeastStops ==
    /\ pc = "stops"
    /\ phase = "least"
    /\ ri > Len(routes)
    /\ IF dict = << >>
       THEN Crash("ValueError") /\ UNCHANGED << out, phase >>
       ELSE /\ out' = [out EXCEPT !.least =
                         Some(<<MinKey(dict), Len(DictGet(dict, MinKey(dict)))>>)]
            /\ phase' = "transfer"
            /\ pc' = "routes"
            /\ err' = err
    /\ UNCHANGED << argVars, fetchVars, loopVars, bfsVars >>

\* get_stop_to_routes returns and q2 prints the transfer stops (lines 41-45)
TransferStops ==
    /\ pc = "stops"
    /\ phase = "transfer"
    /\ ri > Len(routes)
    /\ out' = [out EXCEPT !.transfer = Some(Transfers(dict))]
    /\ pc' = AfterStage("q2")
    /\ UNCHANGED << argVars, fetchVars, err, phase, loopVars, bfsVars >>

\* compute_route_between calls bfs (line 129, lines 135-136)
CallBfs ==
    /\ pc = "stops"
    /\ phase \in {"example", "input"}
    /\ ri > Len(routes)
    /\ visited' = BfsInit(start).visited
    /\ queue' = BfsInit(start).queue
    /\ enq' = <<start>>
    /\ result' = None
    /\ pc' = "bfs"
    /\ UNCHANGED << argVars, fetchVars, err, phase, loopVars, out, neighbors, start, end >>

\* ' -> '.join(...) of what bfs returned (lines 104 and 108); join(None)
\* raises.  The locals of bfs and compute_route_between are gone by then.
PrintRoute ==
    /\ pc = "bfs_ret"
    /\ phase \in {"example", "input"}
    /\ IF ~result.some
       THEN Crash("TypeError") /\ out' = out
       ELSE /\ out' = IF phase = "example" THEN [out EXCEPT !.example = result]
                      ELSE [out EXCEPT !.input = result]
            /\ pc' = IF phase = "example" THEN "q3_input" ELSE "done"
            /\ err' = err
    /\ neighbors' = << >> /\ visited' = << >> /\ queue' = << >>
    /\ enq' = << >> /\ result' = None
    /\ routes' = << >> /\ ri' = 1
    /\ UNCHANGED << argVars, fetchVars, phase, dict, start, end >>

\* the two input() calls and the second compute_route_between (lines 106-108)
ReadStops ==
    /\ pc = "q3_input"
    /\ start' \in Inputs
    /\ end' \in Inputs
    /\ phase' = "input"
    /\ pc' = "routes"
    /\ UNCHANGED << argVars, fetchVars, err, loopVars, out,
                    neighbors, visited, queue, result, enq >>

Next ==
    \/ Main \/ Q1 \/ Q2 \/ Q3 \/ BuildRoutes
    \/ RouteToStopsStep \/ StopToRoutesStep \/ AdjacencyStep
    \/ MostStops \/ LeastStops \/ TransferStops
    \/ CallBfs \/ BfsReturnNone \/ BfsReturnPath \/ BfsExpand
    \/ PrintRoute \/ ReadStops

\* every command line without --apikey
Init == InitArgs({"all", "q1", "q2", "q3"}, {""})

Spec == Init /\ [][Next]_vars

\* main started as --q q2, and the steps such a run can take
SpecQ2 ==
    /\ InitArgs({"q2"}, {""})
    /\ [][Main \/ Q2 \/ BuildRoutes \/ RouteToStopsStep \/ StopToRoutesStep
            \/ MostStops \/ LeastStops \/ TransferStops]_vars

\* main started as --q q3, and the steps such a run can take
SpecQ3 ==
    /\ InitArgs({"q3"}, {""})
    /\ [][Main \/ Q3 \/ BuildRoutes \/ AdjacencyStep \/ CallBfs \/ BfsReturnNone
            \/ BfsReturnPath \/ BfsExpand \/ PrintRoute \/ ReadStops]_vars

\* every command line
InitKey == InitArgs({"all", "q1", "q2", "q3"}, ArgKeys)

SpecKey == InitKey /\ [][Next]_vars

(***************************************************************************)
(* Reference graph distance, computed layer by layer, independently of the *)
(* queue of bfs.                                                           *)
(***************************************************************************)
RECURSIVE LayerDist(_, _, _, _, _)
LayerDist(n, frontier, seen, target, d) ==
    IF target \in frontier THEN d
    ELSE LET nxt == UNION { Nbrs(n, x) : x \in frontier } \ seen IN
           IF nxt = {} THEN -1
           ELSE LayerDist(n, nxt, seen \cup nxt, target, d + 1)

Dist(n, a, b) == LayerDist(n, {a}, {a}, b, 0)

Reachable(n, a, b) == Dist(n, a, b) >= 0

IsWalk(n, p) == \A i \in 1..(Len(p) - 1) : p[i + 1] \in Nbrs(n, p[i])

\* a label is present in the map when it has neighbours or is somebody's
\* neighbour; a key with no neighbours is one bfs itself stored by reading
\* the defaultdict, not a label of the map it was given
Present(n, x) == Nbrs(n, x) # {} \/ \E k \in DOMAIN n : x \in n[k]

\* C1: when end is reachable from start, bfs returns a walk of the map from
\* start to end whose hop count is the graph distance; for start = end it
\* returns exactly [start].
C1_ShortestPath ==
    (pc = "bfs_ret" /\ Reachable(neighbors, start, end)) =>
        /\ result.some
        /\ Len(result.val) >= 1
        /\ Head(result.val) = start
        /\ Last(result.val) = end
        /\ IsWalk(neighbors, result.val)
        /\ Len(result.val) - 1 = Dist(neighbors, start, end)
        /\ (start = end => result.val = <<start>>)

\* a direct edge was taken although a two-hop walk to end exists as well
C1_Witness ==
    /\ pc = "bfs_ret"
    /\ result = Some(<<start, end>>)
    /\ \E m \in Nbrs(neighbors, start) \ {start, end} : end \in Nbrs(neighbors, m)

NoWay ==
    \/ ~Reachable(neighbors, start, end)
    \/ ~Present(neighbors, start)
    \/ ~Present(neighbors, end)

\* C2 as stated: bfs returns None whenever end is not reachable from start,
\* and also whenever start or end is absent from the adjacency map.
C2_NotFoundAnyPair == (pc = "bfs_ret" /\ NoWay) => result = None

\* C2 as amended: the same for start # end.
C2_NotFound == (pc = "bfs_ret" /\ start # end /\ NoWay) => result = None

\* the search ran through two labels and end is absent from the map
C2_Witness ==
    /\ pc = "bfs_ret"
    /\ result = None
    /\ Len(enq) = 2
    /\ ~Present(neighbors, end)
    /\ Present(neighbors, start)

\* C10 (safety part): the labels ever enqueued are exactly the visited list,
\* and no label is enqueued twice.
EnqueuedOnce ==
    /\ visited = enq
    /\ NoDup(enq)
    /\ \A i \in 1..Len(queue) : queue[i][1] \in Range(enq)

\* C10: each label is enqueued at most once, and the search terminates, with
\* a path when end was dequeued and with None when the frontier ran empty.
C10_EnqueueOnceAndTerminate ==
    /\ []EnqueuedOnce
    /\ <>(pc = "bfs_ret")
    /\ [](pc = "bfs_ret" => IF result.some THEN Last(result.val) = end
                             ELSE queue = << >>)

C10_Witness ==
    /\ pc = "bfs_ret"
    /\ result = None
    /\ Len(enq) = 3
    /\ \E k \in DOMAIN neighbors : start \in neighbors[k] /\ k # start

(***************************************************************************)
(* What the Data Source has returned so far, read off the cache.           *)
(***************************************************************************)
Cached(url) == url \in DOMAIN cache /\ ~cache[url].malformed

Listing == cache[RoutesUrl].data

StopsOf(i) == cache[StopsUrl(Listing[i].id)].data

\* the route listing and the stop listing of every route in it were fetched
Complete ==
    /\ Cached(RoutesUrl)
    /\ \A i \in 1..Len(Listing) : Cached(StopsUrl(Listing[i].id))

DistinctStops(i) == Cardinality(Range(StopsOf(i)))

ServedBy(s) == { i \in 1..Len(Listing) : s \in Range(StopsOf(i)) }

UniqueStopNames == \A i \in 1..Len(Listing) : NoDup(StopsOf(i))

UniqueRouteNames ==
    \A i, j \in 1..Len(Listing) : Listing[i].long_name = Listing[j].long_name => i = j

\* C3 (state part): while no fetch has failed, every url was requested from
\* the Data Source exactly once if it is cached and never otherwise.
OncePerKey ==
    err = "none" =>
        \A u \in DOMAIN calls \cup DOMAIN cache :
            /\ Count(calls, u) = 1
            /\ u \in DOMAIN cache

\* C3 (step part): a fetch of a cached url returns the stored response, issues
\* no request and leaves the cache as it was.
HitIsPure ==
    (lastcall' # lastcall /\ lastcall'.val.url \in DOMAIN cache) =>
        /\ ~lastcall'.val.contacted
        /\ lastcall'.val.raised = "none"
        /\ cache' = cache
        /\ calls' = calls
        /\ sent' = sent

\* C3: without Data Source failures each distinct url causes exactly one
\* Data Source request; later fetches of it are answered from the cache
\* without a request and without changing the cache.
C3_OneRequestPerKey == []OncePerKey /\ [][HitIsPure]_vars

C3_Witness ==
    /\ lastcall.some
    /\ ~lastcall.val.contacted
    /\ lastcall.val.url.kind = "stops"
    /\ Count(calls, lastcall.val.url) = 1
    /\ pc = "stops"
    /\ phase = "input"
    /\ argq = "all"

\* C4: after a failed fetch (transport error, non-success status or
\* malformed payload) the cache holds no entry for the url.
C4_FailureNotCached ==
    (lastcall.some /\ lastcall.val.raised # "none") =>
        lastcall.val.url \notin DOMAIN cache

Symmetric(n) ==
    \A a \in DOMAIN n : \A b \in n[a] : b \in DOMAIN n /\ a \in n[b]

\* the routes compute_route_between is done with
RoutesDone == IF pc = "stops" THEN ri - 1 ELSE Len(routes)

AnyResult ==
    \/ out.most.some \/ out.least.some \/ out.transfer.some
    \/ out.example.some \/ out.input.some
    \/ (pc = "stops" /\ ri > Len(routes))
    \/ pc \in {"bfs", "bfs_ret"}

\* C6: a failed Data Source call ends the process with the exception, and no
\* map, statistic or path exists unless the route listing and the stops of
\* every listed route were fetched.
C6_NoPartialResults ==
    /\ AnyResult => Complete
    /\ (lastcall.some /\ lastcall.val.raised # "none") =>
         (pc = "crashed" /\ err = lastcall.val.raised)

C6_Witness ==
    /\ pc = "crashed"
    /\ err = "HTTPError"
    /\ phase = "example"
    /\ ri = 2
    /\ neighbors # << >>
    /\ ~out.example.some

Reported(s) == \E k \in 1..Len(out.transfer.val) : out.transfer.val[k][1] = s

TransferIff == \A s \in StopNames : Reported(s) <=> Cardinality(ServedBy(s)) >= 2

\* C7 as stated: a stop is listed as a transfer stop if and only if two or
\* more distinct routes serve it, whatever records the Data Source returns.
C7_TransferIffAnyRecords == out.transfer.some => TransferIff

\* C7 as amended: the same, when no stop listing names a stop twice.
C7_TransferIff == (out.transfer.some /\ Complete /\ UniqueStopNames) => TransferIff

C7_Witness ==
    /\ out.transfer.some
    /\ UniqueStopNames
    /\ Reported("Ashmont")
    /\ ~Reported("Arlington")
    /\ ServedBy("Arlington") # {}

\* the pair e names a listed route with that many distinct stops, and no
\* listed route has fewer (dir = -1) or more (dir = 1)
Extremal(e, dir) ==
    /\ \E i \in 1..Len(Listing) :
         Listing[i].long_name = e[1] /\ DistinctStops(i) = e[2]
    /\ \A j \in 1..Len(Listing) : dir * DistinctStops(j) <= dir * e[2]

ExtremalBoth ==
    /\ out.most.some => Extremal(out.most.val, 1)
    /\ out.least.some => Extremal(out.least.val, -1)

\* C8 as stated: the pairs returned name a route with its number of distinct
\* stops, and no route has more, respectively fewer, distinct stops.
C8_ExtremalAnyRecords == ExtremalBoth

\* C8 as amended: the same, when long names are unique in the route listing
\* and no stop listing names a stop twice.
C8_Extremal == (Complete /\ UniqueRouteNames /\ UniqueStopNames) => ExtremalBoth

C8_Witness ==
    /\ out.least.some
    /\ UniqueRouteNames
    /\ UniqueStopNames
    /\ out.most.val[2] = 2
    /\ out.least.val[2] = 1
    /\ out.most.val[1] = Listing[2].long_name

\* C9: with --apikey K every request carries the header X-API-KEY: K, and
\* with no key no request carries the header.
C9_KeySent == \A h \in sent : h = Headers(argkey)

====
